---- MODULE Spec2Model ----
(***************************************************************************)
(* Model of src/mock_api.py (FootyPredict mock API): the in-memory date    *)
(* cache CACHE, the fetch / mock-fallback / sort / store path of           *)
(* _get_predictions_for_date, the warm loop of _warm_cache, the endpoints  *)
(* predictions and refresh, the startup hook, and the outcome arithmetic   *)
(* of _to_prediction with the rounding of _pct.                            *)
(*                                                                         *)
(* The handlers are asyncio coroutines on one event loop.  A coroutine     *)
(* runs without interruption until it reaches an await that really         *)
(* suspends; the only such await is client.get(...) inside                 *)
(* _fetch_fixtures_from_api, reached only when API_KEY is set.  One action *)
(* of the model is therefore one run of a handler from a call or a         *)
(* resumption up to its next suspension or its return.                     *)
(*                                                                         *)
(* Dates are day numbers: day n stands for the ISO date 2024-01-01 + n.    *)
(***************************************************************************)
EXTENDS Integers, Sequences, FiniteSets, TLC

VARIABLES
    apiKey,      \* API_KEY is non-empty (line 31)
    cronToken,   \* CRON_TOKEN, "" when not configured (line 32)
    today,       \* the day _today_str() / datetime.now(SERVICE_TZ) yields
    phase,       \* "boot" before on_startup ran, "up" serving, "down" startup failed
    CACHE,       \* the dict CACHE (line 45): day -> sorted list of predictions
    fetchCalls,  \* history: calls of _fetch_fixtures_from_api per day
    task,        \* per request slot: the suspended coroutine, or idle
    last,        \* history: the handler that returned in the latest step, if one did
    lastGet,     \* history: the latest return of _get_predictions_for_date in that step
    rnd,         \* the two rng.random() draws read by _to_prediction (lines 104-105)
    pred         \* the outcome probabilities _to_prediction produced from rnd

vars == <<apiKey, cronToken, today, phase, CACHE, fetchCalls, task, last, lastGet, rnd, pred>>

-----------------------------------------------------------------------------
(* Bounds of the model *)

MaxDay == 2        \* the calendar of the model: days 0 .. MaxDay, day 0 the day of the start
MaxDays == 1       \* largest `days` given to refresh / _warm_cache (the code allows 0..14)
MaxFetch == 2      \* cap on fetchCalls per day
MaxDraw == 12      \* the rng draws of _to_prediction range over 0..MaxDraw fine units
PctUnit == 3       \* resolution: fine units per 0.0001

(* Program constants *)

StartupDays == 1       \* on_startup: _warm_cache(days=1)
MatchChance == 6000    \* rng.random() < 0.6, in 1/10000
DrawScale == 10000     \* resolution of the tabulated rng draws
PctOne == 10000        \* 1.0 in units of 0.0001, the precision of round(x, 4)

Tasks == {1, 2}        \* request slots that may be in flight together

Days == 0 .. MaxDay

NoDate == -1           \* d = None / start_date = None
NoHdr == "<none>"      \* the X-CRON-TOKEN header is absent
Headers == {NoHdr, "tok", "bad"}
Missing == "<missing>" \* the JSON key is absent: dict.get returns its default
Null == "<null>"       \* the JSON value is null: dict.get returns None

-----------------------------------------------------------------------------
(* Strings are compared as Python compares them; StrOrder lists every      *)
(* string of the model in that order.                                      *)

StrOrder ==
    << "AZ", "Ajax", "Arsenal", "Atletico", "Away", "Barcelona", "Bayern",
       "Bundesliga", "Chelsea", "Dortmund", "Eredivisie", "Feyenoord",
       "Gladbach", "Home", "La Liga", "Leipzig", "Leverkusen", "Ligue 1",
       "Lille", "Liverpool", "Lyon", "Man City", "Marseille", "Monaco",
       "Newcastle", "Nice", "PSG", "PSV", "Premier League", "Real Madrid",
       "Sevilla", "Spurs", "Stuttgart", "Twente", "Unknown", "Utrecht",
       "Valencia", "Villarreal" >>

Rank(s) == CHOOSE i \in 1 .. Len(StrOrder) : StrOrder[i] = s

StrLess(a, b) == Rank(a) < Rank(b)

(* COMP_CODES, in the dict's insertion order *)
COMP_CODES ==
    << <<"Eredivisie", "DED">>, <<"Premier League", "PL">>, <<"La Liga", "PD">>,
       <<"Bundesliga", "BL1">>, <<"Ligue 1", "FL1">> >>

(* next((name for name, code in COMP_CODES.items() if code == comp_code), "Unknown") *)
LeagueOfCode(code) ==
    IF \E k \in 1 .. Len(COMP_CODES) : COMP_CODES[k][2] = code
    THEN COMP_CODES[CHOOSE k \in 1 .. Len(COMP_CODES) :
                        /\ COMP_CODES[k][2] = code
                        /\ \A j \in 1 .. (k - 1) : COMP_CODES[j][2] # code][1]
    ELSE "Unknown"

-----------------------------------------------------------------------------
(* _to_prediction: the record's identifying fields.  Every other field is  *)
(* a function of these four (the rng is seeded with them); the outcome     *)
(* probabilities are modelled by OutcomeProbabilities below.               *)

_to_prediction(league, date_iso, home, away) ==
    [league |-> league, date |-> date_iso, home_team |-> home, away_team |-> away]

(* the sort key of line 228, compared as Python compares tuples *)
KeyLess(p, q) ==
    \/ StrLess(p.league, q.league)
    \/ /\ p.league = q.league
       /\ \/ StrLess(p.home_team, q.home_team)
          \/ /\ p.home_team = q.home_team
             /\ StrLess(p.away_team, q.away_team)

(* list.sort is stable: x goes after every element whose key is not greater *)
RECURSIVE InsertSorted(_, _)
InsertSorted(s, x) ==
    IF s = << >> THEN << x >>
    ELSE IF KeyLess(x, Head(s)) THEN << x >> \o s
    ELSE << Head(s) >> \o InsertSorted(Tail(s), x)

RECURSIVE SortPredsFrom(_, _, _)
SortPredsFrom(s, k, acc) ==
    IF k > Len(s) THEN acc ELSE SortPredsFrom(s, k + 1, InsertSorted(acc, s[k]))

NoSort(preds) == preds

(* preds.sort(key=lambda x: (x["league"], x["home_team"], x["away_team"])) *)
SortPreds(preds) == SortPredsFrom(preds, 1, << >>)

IsSorted(s) == \A k \in 1 .. (Len(s) - 1) : ~KeyLess(s[k + 1], s[k])

-----------------------------------------------------------------------------
(* _mock_fixtures_for_date *)

(* the `teams` dict, in insertion order *)
MockTeams ==
    << <<"Eredivisie", << <<"Ajax", "Feyenoord">>, <<"PSV", "AZ">>, <<"Twente", "Utrecht">> >> >>,
       <<"Premier League", << <<"Arsenal", "Chelsea">>, <<"Liverpool", "Man City">>, <<"Spurs", "Newcastle">> >> >>,
       <<"La Liga", << <<"Real Madrid", "Barcelona">>, <<"Atletico", "Sevilla">>, <<"Valencia", "Villarreal">> >> >>,
       <<"Bundesliga", << <<"Bayern", "Dortmund">>, <<"Leipzig", "Leverkusen">>, <<"Gladbach", "Stuttgart">> >> >>,
       <<"Ligue 1", << <<"PSG", "Monaco">>, <<"Lyon", "Marseille">>, <<"Lille", "Nice">> >> >> >>

(* _seeded_rng("fixtures|<date>"): the first ten values of rng.random(),   *)
(* as floor(DrawScale * value), for the days 2024-01-01 .. 2024-01-08.     *)
SeededDraws ==
    << << 8734, 6010, 8976, 8688,  456, 5150, 6821,  494, 5690, 7677 >>,
       << 3623, 4982, 2211, 3281, 4166, 4047, 4302, 2645, 9074, 5364 >>,
       << 9731, 8282, 6258, 9313, 1233, 2937,  827,  105, 6060, 8595 >>,
       << 1795, 2107, 7800, 8178, 7384, 9441, 2093, 2680, 8629, 7648 >>,
       << 4669, 6692, 4069, 8292, 9641, 4922, 8125, 2302, 8779,   30 >>,
       << 9899, 6467,  490, 2547, 1137,  146, 4728, 9217, 2325, 2435 >>,
       <<  790, 2969, 2651, 3320,  404, 6747, 4530, 9222, 3666,  700 >>,
       << 9655, 8101, 5361, 6011,  216, 6035, 8976, 5924, 7177,  274 >> >>

_seeded_rng(date_iso) == SeededDraws[date_iso + 1]

RECURSIVE MockLoop(_, _, _, _, _)
MockLoop(date_iso, rng, li, pos, out) ==
    IF li > Len(MockTeams) THEN out
    ELSE IF rng[pos] < MatchChance
         THEN LET pool == MockTeams[li][2]
                  pick == pool[((rng[pos + 1] * Len(pool)) \div DrawScale) + 1]
              IN  MockLoop(date_iso, rng, li + 1, pos + 2,
                           Append(out, _to_prediction(MockTeams[li][1], date_iso,
                                                      pick[1], pick[2])))
         ELSE MockLoop(date_iso, rng, li + 1, pos + 1, out)

_mock_fixtures_for_date(date_iso) == MockLoop(date_iso, _seeded_rng(date_iso), 1, 1, << >>)

-----------------------------------------------------------------------------
(* _fetch_fixtures_from_api: what the coroutine does with the answer to    *)
(* client.get once it is resumed.                                          *)

Match(code, home, away) == [code |-> code, home |-> home, away |-> away]

(* match payloads the upstream may answer with *)
ApiMatchLists ==
    { << >>,
      << Match("PL", "Liverpool", "Arsenal"), Match("CL", Missing, Missing),
         Match("DED", "Ajax", "PSV") >>,
      << Match("PL", "Arsenal", "Chelsea"), Match("PD", Null, "Sevilla"),
         Match("DED", "PSV", "AZ") >> }

(* the answer to client.get: it raises (connect error, timeout; r.json()   *)
(* raising on a body that is not JSON ends the same way), or a status      *)
(* other than 200, or 200 with a list of matches                           *)
Responses ==
    { [kind |-> "raise", matches |-> << >>], [kind |-> "status", matches |-> << >>] }
    \cup { [kind |-> "ok", matches |-> ms] : ms \in ApiMatchLists }

NoResp == [kind |-> "none", matches |-> << >>]

(* m.get("homeTeam", {}).get("name", dflt): a null team object makes the   *)
(* second .get raise AttributeError                                        *)
Raises(m) == m.home = Null \/ m.away = Null

NameOr(v, dflt) == IF v = Missing THEN dflt ELSE v

(* the loop of lines 168-176; no try/except: the first match that raises   *)
(* ends the coroutine with that exception.  The matches carry no utcDate,  *)
(* so date_iso is target_date (the default of line 171).                   *)
RECURSIVE ConvertMatches(_, _, _, _)
ConvertMatches(ms, target_date, k, preds) ==
    IF k > Len(ms) THEN [raised |-> FALSE, preds |-> preds]
    ELSE IF Raises(ms[k]) THEN [raised |-> TRUE, preds |-> << >>]
    ELSE ConvertMatches(ms, target_date, k + 1,
             Append(preds, _to_prediction(LeagueOfCode(ms[k].code), target_date,
                                          NameOr(ms[k].home, "Home"),
                                          NameOr(ms[k].away, "Away"))))

_fetch_fixtures_from_api(target_date, r) ==
    IF r.kind = "raise" THEN [raised |-> TRUE, preds |-> << >>]
    ELSE IF r.kind = "status" THEN [raised |-> FALSE, preds |-> << >>]
    ELSE ConvertMatches(r.matches, target_date, 1, << >>)

-----------------------------------------------------------------------------
(* _get_predictions_for_date, after the fetch: lines 223-231 *)

Put(c, d, v) == [x \in (DOMAIN c) \cup {d} |-> IF x = d THEN v ELSE c[x]]

(* lines 224-228: the list that is stored and returned *)
ComputePreds(date_iso, fetched) ==
    SortPreds(IF fetched = << >> THEN _mock_fixtures_for_date(date_iso) ELSE fetched)

InCacheNever(c, d) == FALSE

(* line 217: date_iso in CACHE *)
InCache(c, d) == d \in DOMAIN c

LoopDoneEarly(i, days) == i >= days

(* line 241: range(days + 1) is exhausted *)
LoopDone(i, days) == i > days

CountUp(fc, d) == [fc EXCEPT ![d] = IF @ < MaxFetch THEN @ + 1 ELSE @]

GetRecord(d, kind, r, raised, out) ==
    [d |-> d, kind |-> kind, resp |-> r, raised |-> raised, out |-> out]

NoGet == GetRecord(NoDate, "none", NoResp, FALSE, << >>)

(* _warm_cache from loop index i on, each turn calling                     *)
(* _get_predictions_for_date(start + i), up to the first await that        *)
(* suspends (pc "get": the request of line 164 is in flight) or to the     *)
(* return (pc "done").  Without API_KEY _fetch_fixtures_from_api returns   *)
(* [] at line 150 without suspending, so the whole loop runs in one piece. *)
(* predictions(d) is the same run for the single date d.                   *)
RECURSIVE RunFrom(_, _, _, _, _, _)
RunFrom(c, fc, lg, start, days, i) ==
    IF LoopDone(i, days)
    THEN [pc |-> "done", i |-> i, cache |-> c, fc |-> fc, lg |-> lg]
    ELSE LET d == start + i IN
         IF InCache(c, d)
         THEN RunFrom(c, fc, GetRecord(d, "hit", NoResp, FALSE, c[d]), start, days, i + 1)
         ELSE IF apiKey
         THEN [pc |-> "get", i |-> i, cache |-> c, fc |-> CountUp(fc, d), lg |-> lg]
         ELSE LET preds == ComputePreds(d, << >>) IN
              RunFrom(Put(c, d, preds), CountUp(fc, d),
                      GetRecord(d, "miss", NoResp, FALSE, preds), start, days, i + 1)

-----------------------------------------------------------------------------
(* The outcome probabilities of _to_prediction (lines 104-110).  Values    *)
(* are integers in fine units, PctUnit of them to 0.0001; a draw k stands  *)
(* for 0.10 * rng.random() = k fine units.  _pct yields units of 0.0001.   *)
(* With PctUnit odd no value lies halfway between two multiples of 0.0001, *)
(* where the float's representation error decides round().                 *)

Clamp(q) == IF q < 0 THEN 0 ELSE IF q > PctOne THEN PctOne ELSE q

_pctTruncating(x) == Clamp(x \div PctUnit)

(* max(0.0, min(1.0, round(x, 4))): round to the nearest 0.0001, a tie to  *)
(* the even neighbour, then clamp                                          *)
_pct(x) ==
    LET q == x \div PctUnit
        r == x % PctUnit
    IN  Clamp(IF 2 * r < PctUnit THEN q
              ELSE IF 2 * r > PctUnit THEN q + 1
              ELSE IF q % 2 = 0 THEN q ELSE q + 1)

OutcomeProbabilities(k1, k2) ==
    LET base_home == 4000 * PctUnit + k1
        base_away == 3000 * PctUnit + k2
        base_draw == PctOne * PctUnit - base_home - base_away
    IN  [p_home |-> _pct(base_home), p_draw |-> _pct(base_draw), p_away |-> _pct(base_away)]

-----------------------------------------------------------------------------
(* Coroutines and handlers *)

TaskRecord(pc, op, hdr, start, days, i) ==
    [pc |-> pc, op |-> op, hdr |-> hdr, start |-> start, days |-> days, i |-> i]

IdleTask == TaskRecord("idle", "none", NoHdr, 0, 0, 0)

LastRecord(op, status, hdr, start, days) ==
    [op |-> op, status |-> status, hdr |-> hdr, start |-> start, days |-> days]

NoLast == LastRecord("none", "none", NoHdr, 0, 0)

(* the coroutine of slot t ran up to `run`: it is suspended at client.get, *)
(* or its handler returned (on_startup returning lets the server serve)    *)
Proceed(t, op, hdr, start, days, run) ==
    /\ CACHE' = run.cache
    /\ fetchCalls' = run.fc
    /\ lastGet' = run.lg
    /\ IF run.pc = "done"
       THEN /\ task' = [task EXCEPT ![t] = IdleTask]
            /\ last' = LastRecord(op, "200", hdr, start, days)
            /\ phase' = IF op = "startup" THEN "up" ELSE phase
       ELSE /\ task' = [task EXCEPT ![t] = TaskRecord("get", op, hdr, start, days, run.i)]
            /\ last' = NoLast
            /\ UNCHANGED phase

(* lines 237-240: cur *)
WarmStart(start_date) == IF start_date # NoDate THEN start_date ELSE today

(* _warm_cache(days, start_date), from its first line *)
_warm_cache(t, op, hdr, days, start_date) ==
    /\ WarmStart(start_date) + days <= MaxDay
    /\ Proceed(t, op, hdr, WarmStart(start_date), days,
               RunFrom(CACHE, fetchCalls, NoGet, WarmStart(start_date), days, 0))

(* a new coroutine takes the first free slot *)
FreeSlot(t) == task[t].pc = "idle" /\ \A u \in Tasks : u < t => task[u].pc # "idle"

(* the clock passes midnight (UTC) *)
Tick ==
    /\ phase = "up"
    /\ today < MaxDay
    /\ today' = today + 1
    /\ last' = NoLast
    /\ lastGet' = NoGet
    /\ UNCHANGED <<apiKey, cronToken, phase, CACHE, fetchCalls, task, rnd, pred>>

(* on_startup: runs before any request is served *)
on_startup ==
    /\ phase = "boot"
    /\ FreeSlot(1)
    /\ _warm_cache(1, "startup", NoHdr, StartupDays, NoDate)
    /\ UNCHANGED <<apiKey, cronToken, today, rnd, pred>>

(* GET /predictions?d=... ; line 261: d or _today_str() *)
predictions(t, d) ==
    /\ phase = "up"
    /\ FreeSlot(t)
    /\ LET date_iso == IF d # NoDate THEN d ELSE today IN
       Proceed(t, "predictions", NoHdr, date_iso, 0,
               RunFrom(CACHE, fetchCalls, NoGet, date_iso, 0, 0))
    /\ UNCHANGED <<apiKey, cronToken, today, rnd, pred>>

RefreshStatusNoAuth(x_cron_token) == IF cronToken = "" THEN "400" ELSE "200"

(* lines 273-276: the status refresh answers with before warming *)
RefreshStatus(x_cron_token) ==
    IF cronToken = "" THEN "400"
    ELSE IF x_cron_token # cronToken THEN "401"
    ELSE "200"

(* POST /refresh?days=... with header X-CRON-TOKEN *)
refresh(t, x_cron_token, days) ==
    /\ phase = "up"
    /\ FreeSlot(t)
    /\ IF RefreshStatus(x_cron_token) # "200"
       THEN /\ last' = LastRecord("refresh", RefreshStatus(x_cron_token), x_cron_token, today, 0)
            /\ lastGet' = NoGet
            /\ UNCHANGED <<phase, CACHE, fetchCalls, task>>
       ELSE _warm_cache(t, "refresh", x_cron_token, days, NoDate)
    /\ UNCHANGED <<apiKey, cronToken, today, rnd, pred>>

(* a direct call of _warm_cache(days, start_date) *)
warm(t, days, start_date) ==
    /\ phase = "up"
    /\ FreeSlot(t)
    /\ _warm_cache(t, "warm", NoHdr, days, start_date)
    /\ UNCHANGED <<apiKey, cronToken, today, rnd, pred>>

(* the answer r to client.get resumes the coroutine of slot t at line 164: *)
(* _fetch_fixtures_from_api finishes, then lines 223-231, then the loop of *)
(* _warm_cache goes on.  An exception leaves through every frame: the      *)
(* endpoint answers 500, on_startup fails and the server does not start.   *)
(* (Leaving `async with` may suspend once more while the client closes;    *)
(* preds is a local then and CACHE is written after it, as here.)          *)
Response(t, r) ==
    /\ task[t].pc = "get"
    /\ LET tk == task[t]
           d == tk.start + tk.i
           f == _fetch_fixtures_from_api(d, r)
           preds == ComputePreds(d, f.preds)
       IN  IF f.raised
           THEN /\ task' = [task EXCEPT ![t] = IdleTask]
                /\ last' = LastRecord(tk.op, "500", tk.hdr, tk.start, tk.days)
                /\ lastGet' = GetRecord(d, "miss", r, TRUE, << >>)
                /\ phase' = IF tk.op = "startup" THEN "down" ELSE phase
                /\ UNCHANGED <<CACHE, fetchCalls>>
           ELSE Proceed(t, tk.op, tk.hdr, tk.start, tk.days,
                        RunFrom(Put(CACHE, d, preds), fetchCalls,
                                GetRecord(d, "miss", r, FALSE, preds),
                                tk.start, tk.days, tk.i + 1))
    /\ UNCHANGED <<apiKey, cronToken, today, rnd, pred>>

-----------------------------------------------------------------------------
(* The service: HTTP requests, which may overlap at the await *)

NoPred == [p_home |-> -1, p_draw |-> -1, p_away |-> -1]

Init ==
    /\ apiKey \in BOOLEAN
    /\ cronToken \in {"", "tok"}
    /\ today = 0
    /\ phase = "boot"
    /\ CACHE = << >>
    /\ fetchCalls = [d \in Days |-> 0]
    /\ task = [t \in Tasks |-> IdleTask]
    /\ last = NoLast
    /\ lastGet = NoGet
    /\ rnd = <<0, 0>>
    /\ pred = NoPred

Next ==
    \/ Tick
    \/ on_startup
    \/ \E t \in Tasks, d \in Days \cup {NoDate} : predictions(t, d)
    \/ \E t \in Tasks, h \in Headers, days \in 0 .. MaxDays : refresh(t, h, days)
    \/ \E t \in Tasks, r \in Responses : Response(t, r)

Spec == Init /\ [][Next]_vars

(* Sequential access: one call at a time, each run to its return before    *)
(* the next begins; _warm_cache is also called directly, with a start_date *)
SeqNext ==
    \/ Tick
    \/ on_startup
    \/ \E d \in Days \cup {NoDate} : predictions(1, d)
    \/ \E h \in Headers, days \in 0 .. MaxDays : refresh(1, h, days)
    \/ \E days \in 0 .. MaxDays, s \in Days \cup {NoDate} : warm(1, days, s)
    \/ \E r \in Responses : Response(1, r)

SeqSpec == Init /\ [][SeqNext]_vars

(* _to_prediction as a function of its rng draws *)
Predict ==
    /\ pred = NoPred
    /\ pred' = OutcomeProbabilities(rnd[1], rnd[2])
    /\ UNCHANGED <<apiKey, cronToken, today, phase, CACHE, fetchCalls, task, last, lastGet, rnd>>

PredInit ==
    /\ apiKey = FALSE
    /\ cronToken = ""
    /\ today = 0
    /\ phase = "boot"
    /\ CACHE = << >>
    /\ fetchCalls = [d \in Days |-> 0]
    /\ task = [t \in Tasks |-> IdleTask]
    /\ last = NoLast
    /\ lastGet = NoGet
    /\ rnd \in (0 .. MaxDraw) \X (0 .. MaxDraw)
    /\ pred = NoPred

PredNext == Predict

PredSpec == PredInit /\ [][PredNext]_vars

-----------------------------------------------------------------------------
(* Properties *)

AwaitedDay(t) == task[t].start + task[t].i

WarmOps == {"startup", "refresh", "warm"}

(* C1: under sequential access _fetch_fixtures_from_api runs at most once  *)
(* for every date, whatever calls are made.                                *)
C1_FetchAtMostOncePerDate == \A d \in Days : fetchCalls[d] <= 1

(* C2: at no time are two fetches for the same date in flight: a caller    *)
(* that finds another one suspended on the date's fetch starts none of its *)
(* own.                                                                    *)
C2_OneFetchInFlightPerDate ==
    \A d \in Days : Cardinality({t \in Tasks : task[t].pc = "get" /\ AwaitedDay(t) = d}) <= 1

(* C3: a warm run (startup with days = 1, refresh, _warm_cache) visits the *)
(* dates start .. start + days in ascending order: while it is suspended   *)
(* at index i every earlier date is cached, and when it has returned       *)
(* normally all days + 1 dates are cached; startup and refresh start from  *)
(* the current day.                                                        *)
C3_WarmCoversRange ==
    /\ \A t \in Tasks :
          task[t].pc = "get" =>
              \A k \in 0 .. (task[t].i - 1) : InCache(CACHE, task[t].start + k)
    /\ (last.op \in WarmOps /\ last.status = "200") =>
          \A k \in 0 .. last.days : (last.start + k) \in DOMAIN CACHE
    /\ (last.op = "startup") => last.days = StartupDays
    /\ (last.op \in {"startup", "refresh"}) => last.start <= today

C3_Witness ==
    /\ apiKey
    /\ last.op = "refresh" /\ last.status = "200" /\ last.days >= 1
    /\ lastGet.kind = "miss" /\ lastGet.d = last.start + last.days

(* C4: when the upstream answers 200 with no matches for a date, the call  *)
(* returns the empty list and the empty list is the date's cache entry.    *)
C4_EmptyFixturesGiveEmptyEntry ==
    (lastGet.kind = "miss" /\ lastGet.resp.kind = "ok" /\ lastGet.resp.matches = << >>) =>
        /\ ~lastGet.raised
        /\ lastGet.out = << >>
        /\ lastGet.d \in DOMAIN CACHE
        /\ CACHE[lastGet.d] = << >>

(* C5: no handler ever ends with the upstream failure as its outcome: no   *)
(* request is answered 500 and startup does not fail.                      *)
C5_UpstreamFailureNeverSurfaces == last.status # "500" /\ phase # "down"

Succeeding(ms, d) == ConvertMatches(SelectSeq(ms, LAMBDA m : ~Raises(m)), d, 1, << >>).preds

(* C6: when one fixture of an upstream answer fails and others succeed,    *)
(* the call returns exactly the predictions of the succeeding fixtures.    *)
C6_FailingFixtureAloneOmitted ==
    (/\ lastGet.kind = "miss" /\ lastGet.resp.kind = "ok"
     /\ \E k \in 1 .. Len(lastGet.resp.matches) : Raises(lastGet.resp.matches[k])
     /\ Succeeding(lastGet.resp.matches, lastGet.d) # << >>) =>
        /\ ~lastGet.raised
        /\ lastGet.out = SortPredsFrom(Succeeding(lastGet.resp.matches, lastGet.d), 1, << >>)

Count(s, x) == Cardinality({k \in 1 .. Len(s) : s[k] = x})

SameElements(s, u) ==
    /\ Len(s) = Len(u)
    /\ \A k \in 1 .. Len(s) : Count(s, s[k]) = Count(u, s[k])

(* the complete unsorted lists a date's computation can end with *)
CompleteSources(d) ==
    {_mock_fixtures_for_date(d)} \cup
    {ConvertMatches(ms, d, 1, << >>).preds :
        ms \in {m \in ApiMatchLists : m # << >> /\ \A k \in 1 .. Len(m) : ~Raises(m[k])}}

(* C7: in every state, with requests overlapping, every entry of CACHE and *)
(* every list a call returned is sorted ascending by (league, home_team,   *)
(* away_team), and every entry holds all predictions of one computation.   *)
C7_CacheEntriesCompleteAndSorted ==
    /\ \A d \in DOMAIN CACHE :
          /\ IsSorted(CACHE[d])
          /\ \E src \in CompleteSources(d) : SameElements(CACHE[d], src)
    /\ (lastGet.kind # "none" /\ ~lastGet.raised) => IsSorted(lastGet.out)

C7_Witness ==
    /\ lastGet.kind = "miss" /\ lastGet.resp.kind = "ok"
    /\ Len(lastGet.out) >= 2
    /\ lastGet.out # ConvertMatches(lastGet.resp.matches, lastGet.d, 1, << >>).preds
    /\ CACHE[lastGet.d] = lastGet.out
    /\ \E t \in Tasks : task[t].pc = "get" /\ AwaitedDay(t) = lastGet.d

ProbSum == pred.p_home + pred.p_draw + pred.p_away

(* C8 as stated: the three rounded outcome probabilities sum to exactly 1. *)
C8_SumExactlyOne == pred # NoPred => ProbSum = PctOne

(* C8 amended: the three rounded outcome probabilities sum to 1 within     *)
(* 0.0001: the sum is 0.9999, 1.0000 or 1.0001.                            *)
C8_SumWithinOneUnit == pred # NoPred => (ProbSum >= PctOne - 1 /\ ProbSum <= PctOne + 1)

C8_Witness == pred # NoPred /\ ProbSum = PctOne + 1

(* C9: under sequential access no step removes a cache entry or changes    *)
(* the list stored for a date.                                             *)
C9_EntriesNeverRemovedNorChanged ==
    [][\A d \in DOMAIN CACHE : d \in DOMAIN CACHE' /\ CACHE'[d] = CACHE[d]]_vars

C9_Witness ==
    /\ apiKey
    /\ last.op = "refresh" /\ last.status = "200"
    /\ lastGet.kind = "hit" /\ lastGet.d = last.start + last.days
    /\ fetchCalls[lastGet.d] = 1

====
